---- MODULE Spec2Model ----
(***************************************************************************)
(* Model of the broadcast scheduler (broadcast_scheduler.py) and of the    *)
(* schedule manager's writers (schedule_manager.py): save_schedule and     *)
(* rescan_metadata.                                                        *)
(*                                                                         *)
(* Encoding of Python / JSON values:                                       *)
(*   - None is the empty sequence, a present value x is <<x>> (Optional).  *)
(*   - a str that the code parses (a time string) is a sequence of         *)
(*     one-character strings; other strs are TLA+ strings.                 *)
(*   - a dict is a function from keys to values; a missing key is a key    *)
(*     outside its DOMAIN. A JSON value that may not be a dict carries a   *)
(*     "type" key ("object", "array", "string").                           *)
(*   - a datetime is a count of clock ticks since the epoch, Sub ticks to  *)
(*     the second; a formatted timestamp is <<day, hour, minute, second>>. *)
(*   - a file's text is a sequence of chunks <<document, i>>, i = 1..      *)
(*     NChunks: json.dumps gives all NChunks chunks of one document, and   *)
(*     json.loads accepts exactly such a text.                             *)
(***************************************************************************)
EXTENDS Integers, Sequences, FiniteSets, TLC

VARIABLES
    pc,                  \* the scheduler process's position in run_scheduler
    metadata_cache,      \* run_scheduler local
    last_metadata_scan,  \* run_scheduler local (ticks)
    schedule_cache,      \* run_scheduler local
    schedule_mtime,      \* run_scheduler local
    now,                 \* run_scheduler local: time.time() of this tick
    mtime,               \* run_scheduler local: st_mtime read in this tick
    schedule_items,      \* run_scheduler local: the sorted entries of this tick
    current_item,        \* run_scheduler local (Optional)
    next_item,           \* run_scheduler local (Optional)
    status,              \* run_scheduler local: the built status (Optional)
    payload,             \* update_metadata_cache local (Optional)
    meta_fd,             \* the scheduler's open file on the metadata temporary
    fs,                  \* the working directory: path -> file
    clock,               \* wall clock, in ticks
    media_dir,           \* filenames of the media files in MEDIA_DIR
    ed_pc,               \* the schedule manager's position in save_schedule
                         \* or in rescan_metadata
    ed_doc,              \* the document the manager is writing (Optional)
    ed_fd                \* the manager's open file on the metadata temporary

schedVars == <<pc, metadata_cache, last_metadata_scan, schedule_cache,
               schedule_mtime, now, mtime, schedule_items, current_item,
               next_item, status, payload, meta_fd>>
envVars == <<fs, clock, media_dir, ed_pc, ed_doc, ed_fd>>
vars == <<pc, metadata_cache, last_metadata_scan, schedule_cache,
          schedule_mtime, now, mtime, schedule_items, current_item,
          next_item, status, payload, meta_fd, fs, clock, media_dir, ed_pc,
          ed_doc, ed_fd>>

---------------------------------------------------------------------------
(* Bounds of the model *)

\* longest items list of a schedule document
MaxItems == 3
\* clock ticks per second (datetime and time.time() are finer than a second)
Sub == 2
\* chunks a file's text is written in
NChunks == 2
\* the day (since the epoch) at whose midnight the scheduler is first started
BootDay == 1
\* seconds of wall-clock time modelled after that
MaxSeconds == 2
\* seconds before the last instant modelled at which the long run is started
CadenceSeconds == 11

(* Program constants *)

POLL_INTERVAL_SECONDS == 1
RESCAN_INTERVAL_SECONDS == 10
\* build_status: current_item.get("metadata_display_duration", 10)
DEFAULT_DISPLAY_DURATION == 10
SECONDS_PER_DAY == 24 * 3600

---------------------------------------------------------------------------
(* Python values *)

None == <<>>
Some(x) == <<x>>

\* dict.get(key, default)
Get(d, k, default) == IF k \in DOMAIN d THEN d[k] ELSE default
\* dict.get(key): None when the key is missing
GetOpt(d, k) == IF k \in DOMAIN d THEN Some(d[k]) ELSE None

SCHEDULE_FILE == "schedule.json"
METADATA_FILE == "media_metadata.json"
STATUS_FILE == "obs_status.json"

---------------------------------------------------------------------------
(* Time: utc_now, format_utc *)

\* datetime fields of an instant (ticks since the epoch)
EpochSeconds(dt) == dt \div Sub
Hour(dt) == (EpochSeconds(dt) % SECONDS_PER_DAY) \div 3600
Minute(dt) == ((EpochSeconds(dt) % SECONDS_PER_DAY) % 3600) \div 60
Second(dt) == (EpochSeconds(dt) % SECONDS_PER_DAY) % 60
Day(dt) == EpochSeconds(dt) \div SECONDS_PER_DAY

\* strftime("%Y-%m-%dT%H:%M:%SZ"): the sub-second part is dropped
format_utc(dt) == <<Day(dt), Hour(dt), Minute(dt), Second(dt)>>

\* the instant a formatted timestamp denotes, in whole seconds
stamp_seconds(s) == s[1] * SECONDS_PER_DAY + s[2] * 3600 + s[3] * 60 + s[4]

---------------------------------------------------------------------------
(* parse_time_to_seconds *)

DigitChars == <<"0", "1", "2", "3", "4", "5", "6", "7", "8", "9">>
IsDigit(c) == \E i \in 1..10 : DigitChars[i] = c
DigitValue(c) == (CHOOSE i \in 1..10 : DigitChars[i] = c) - 1

\* str.split(sep): the fields of s between the separators
RECURSIVE split_from(_, _, _, _)
split_from(s, sep, i, cur) ==
    IF i > Len(s) THEN <<cur>>
    ELSE IF s[i] = sep THEN <<cur>> \o split_from(s, sep, i + 1, <<>>)
    ELSE split_from(s, sep, i + 1, Append(cur, s[i]))
split(s, sep) == split_from(s, sep, 1, <<>>)

RECURSIVE digits_value(_, _)
digits_value(ds, acc) ==
    IF ds = <<>> THEN acc
    ELSE digits_value(Tail(ds), acc * 10 + DigitValue(Head(ds)))

\* int(p) for a str of sign and digit characters: None stands for ValueError
py_int(p) ==
    LET signed == p # <<>> /\ Head(p) \in {"-", "+"}
        ds == IF signed THEN Tail(p) ELSE p
    IN  IF ds = <<>> \/ \E i \in 1..Len(ds) : ~IsDigit(ds[i]) THEN None
        ELSE IF signed /\ Head(p) = "-" THEN Some(0 - digits_value(ds, 0))
        ELSE Some(digits_value(ds, 0))

parse_time_to_seconds(time_str) ==
    LET fields == split(time_str, ":")
        parts == [i \in 1..Len(fields) |-> py_int(fields[i])]
    IN  IF \E i \in 1..Len(parts) : parts[i] = None THEN None
        ELSE IF Len(parts) # 3 THEN None
        ELSE Some(parts[1][1] * 3600 + parts[2][1] * 60 + parts[3][1])

---------------------------------------------------------------------------
(* resolve_schedule_items *)

\* {**item, "_seconds": seconds}
with_seconds(item, seconds) ==
    [k \in DOMAIN item \cup {"_seconds"} |->
        IF k = "_seconds" THEN seconds ELSE item[k]]

\* Mutant: the sort is not stable: x goes before the elements whose key equals
\* its own, so entries at the same time come out in reverse document order.
RECURSIVE insert_sorted_before(_, _)
insert_sorted_before(sorted, x) ==
    IF sorted = <<>> THEN <<x>>
    ELSE IF Head(sorted)["_seconds"] < x["_seconds"]
         THEN <<Head(sorted)>> \o insert_sorted_before(Tail(sorted), x)
         ELSE <<x>> \o sorted

\* list.sort(key=...) is stable: x goes after every element whose key is <= its own
RECURSIVE insert_sorted(_, _)
insert_sorted(sorted, x) ==
    IF sorted = <<>> THEN <<x>>
    ELSE IF Head(sorted)["_seconds"] <= x["_seconds"]
         THEN <<Head(sorted)>> \o insert_sorted(Tail(sorted), x)
         ELSE <<x>> \o sorted

RECURSIVE sort_by_seconds(_, _)
sort_by_seconds(xs, sorted) ==
    IF xs = <<>> THEN sorted
    ELSE sort_by_seconds(Tail(xs), insert_sorted(sorted, Head(xs)))

\* Mutant: an item whose time does not parse is kept, at midnight, instead of
\* skipped (line 141-142).
RECURSIVE normalize_keep(_)
normalize_keep(items) ==
    IF items = <<>> THEN <<>>
    ELSE LET item == Head(items)
             seconds == parse_time_to_seconds(Get(item, "time", <<>>))
         IN  <<with_seconds(item, IF seconds = None THEN 0 ELSE seconds[1])>>
                 \o normalize_keep(Tail(items))

\* the loop of lines 139-143: items whose time does not parse are skipped
RECURSIVE normalize(_)
normalize(items) ==
    IF items = <<>> THEN <<>>
    ELSE LET item == Head(items)
             seconds == parse_time_to_seconds(Get(item, "time", <<>>))
         IN  IF seconds = None THEN normalize(Tail(items))
             ELSE <<with_seconds(item, seconds[1])>> \o normalize(Tail(items))

\* schedule.get / item.get raise AttributeError on a value that is no dict
resolve_raises(schedule) ==
    \/ schedule.type # "object"
    \/ LET items == Get(schedule, "items", <<>>)
       IN  \E i \in 1..Len(items) : items[i].type # "object"

resolve_schedule_items(schedule) ==
    sort_by_seconds(normalize(Get(schedule, "items", <<>>)), <<>>)

---------------------------------------------------------------------------
(* select_current_item *)

now_seconds_of(now_utc) ==
    Hour(now_utc) * 3600 + Minute(now_utc) * 60 + Second(now_utc)

\* the for loop of lines 156-166, from index idx on; <<current, next_item>>
RECURSIVE select_loop(_, _, _, _, _)
select_loop(entries, now_seconds, idx, current, next) ==
    IF idx > Len(entries) THEN <<current, next>>
    ELSE LET item == entries[idx]
         IN  IF item["_seconds"] <= now_seconds
             THEN select_loop(entries, now_seconds, idx + 1, Some(item),
                      IF idx + 1 <= Len(entries)
                      THEN Some(entries[idx + 1])
                      ELSE Some(entries[1]))
             ELSE IF item["_seconds"] > now_seconds /\ current = None
             THEN <<Some(entries[Len(entries)]), Some(item)>>
             ELSE select_loop(entries, now_seconds, idx + 1, current, next)

\* Mutant: the comparison of line 157 is strict, so an entry is not current at
\* the very second it starts.
RECURSIVE select_loop_strict(_, _, _, _, _)
select_loop_strict(entries, now_seconds, idx, current, next) ==
    IF idx > Len(entries) THEN <<current, next>>
    ELSE LET item == entries[idx]
         IN  IF item["_seconds"] < now_seconds
             THEN select_loop_strict(entries, now_seconds, idx + 1, Some(item),
                      IF idx + 1 <= Len(entries)
                      THEN Some(entries[idx + 1])
                      ELSE Some(entries[1]))
             ELSE IF item["_seconds"] >= now_seconds /\ current = None
             THEN <<Some(entries[Len(entries)]), Some(item)>>
             ELSE select_loop_strict(entries, now_seconds, idx + 1, current, next)

select_current_item_strict(entries, now_utc) ==
    IF entries = <<>> THEN <<None, None>>
    ELSE LET r == select_loop_strict(entries, now_seconds_of(now_utc), 1, None, None)
             current == IF r[1] = None
                        THEN Some(entries[Len(entries)]) ELSE r[1]
             next == IF r[2] = None THEN Some(entries[1]) ELSE r[2]
         IN  <<current, next>>

\* Mutant: before the first entry of the day, line 165 takes the first entry
\* (entries[0]) as current instead of the last.
select_current_item_first(entries, now_utc) ==
    IF entries = <<>> THEN <<None, None>>
    ELSE LET r == select_loop(entries, now_seconds_of(now_utc), 1, None, None)
         IN  IF entries[1]["_seconds"] > now_seconds_of(now_utc)
             THEN <<Some(entries[1]), r[2]>>
             ELSE r

\* Mutant: before the first entry of the day nothing is playing: lines 165 and
\* 168-169 are missing.
select_current_item_nothing(entries, now_utc) ==
    IF entries = <<>> THEN <<None, None>>
    ELSE LET r == select_loop(entries, now_seconds_of(now_utc), 1, None, None)
         IN  IF entries[1]["_seconds"] > now_seconds_of(now_utc)
             THEN <<None, r[2]>>
             ELSE r

\* Mutant: the next entry does not wrap: lines 161-162 and 170-171 are missing,
\* so the last entry has no next.
select_current_item_nonext(entries, now_utc) ==
    IF entries = <<>> THEN <<None, None>>
    ELSE LET r == select_loop(entries, now_seconds_of(now_utc), 1, None, None)
             last == entries[Len(entries)]
         IN  IF r[1] = Some(last) /\ last["_seconds"] <= now_seconds_of(now_utc)
             THEN <<r[1], None>>
             ELSE r

select_current_item(entries, now_utc) ==
    IF entries = <<>> THEN <<None, None>>
    ELSE LET r == select_loop(entries, now_seconds_of(now_utc), 1, None, None)
             current == IF r[1] = None
                        THEN Some(entries[Len(entries)]) ELSE r[1]
             next == IF r[2] = None THEN Some(entries[1]) ELSE r[2]
         IN  <<current, next>>

---------------------------------------------------------------------------
(* build_status *)

\* items.get(media_key): media_key is Optional
lookup_metadata(items, media_key) ==
    IF media_key # None /\ media_key[1] \in DOMAIN items
    THEN Some(items[media_key[1]]) ELSE None

\* Mutant: the duration is read under a key the entries do not have, so the
\* default is always taken (line 190).
build_status_default(current, next, cache, now_dt) ==
    LET items == Get(cache, "items", <<>>)
        next_part == IF next # None
                     THEN Some([time |-> GetOpt(next[1], "time"),
                                media |-> GetOpt(next[1], "media")])
                     ELSE None
    IN  IF current # None
        THEN LET media_key == GetOpt(current[1], "media")
                 display_duration == DEFAULT_DISPLAY_DURATION
                 display_until == now_dt + display_duration * Sub
             IN  [current_utc |-> format_utc(now_dt),
                  current_item |-> Some([time |-> GetOpt(current[1], "time"),
                                         media |-> media_key,
                                         metadata_display_duration |-> display_duration]),
                  next_item |-> next_part,
                  metadata |-> lookup_metadata(items, media_key),
                  display_until_utc |-> format_utc(display_until)]
        ELSE [current_utc |-> format_utc(now_dt), current_item |-> None,
              next_item |-> next_part, metadata |-> None]

\* Mutant: the metadata is looked up for the next entry's media (line 188 reads
\* next_item).
build_status_next(current, next, cache, now_dt) ==
    LET items == Get(cache, "items", <<>>)
        next_part == IF next # None
                     THEN Some([time |-> GetOpt(next[1], "time"),
                                media |-> GetOpt(next[1], "media")])
                     ELSE None
    IN  IF current # None
        THEN LET media_key == GetOpt(current[1], "media")
                 display_duration == Get(current[1], "metadata_display_duration",
                                         DEFAULT_DISPLAY_DURATION)
                 display_until == now_dt + display_duration * Sub
             IN  [current_utc |-> format_utc(now_dt),
                  current_item |-> Some([time |-> GetOpt(current[1], "time"),
                                         media |-> media_key,
                                         metadata_display_duration |-> display_duration]),
                  next_item |-> next_part,
                  metadata |-> IF next # None
                               THEN lookup_metadata(items, GetOpt(next[1], "media"))
                               ELSE None,
                  display_until_utc |-> format_utc(display_until)]
        ELSE [current_utc |-> format_utc(now_dt), current_item |-> None,
              next_item |-> next_part, metadata |-> None]

\* Mutant: the duration reported in current_item is what is left of it in the
\* current minute, so it depends on the instant of the build.
build_status_remaining(current, next, cache, now_dt) ==
    LET items == Get(cache, "items", <<>>)
        next_part == IF next # None
                     THEN Some([time |-> GetOpt(next[1], "time"),
                                media |-> GetOpt(next[1], "media")])
                     ELSE None
    IN  IF current # None
        THEN LET media_key == GetOpt(current[1], "media")
                 display_duration == Get(current[1], "metadata_display_duration",
                                         DEFAULT_DISPLAY_DURATION)
                 display_until == now_dt + display_duration * Sub
             IN  [current_utc |-> format_utc(now_dt),
                  current_item |-> Some([time |-> GetOpt(current[1], "time"),
                                         media |-> media_key,
                                         metadata_display_duration |->
                                             display_duration - Second(now_dt)]),
                  next_item |-> next_part,
                  metadata |-> lookup_metadata(items, media_key),
                  display_until_utc |-> format_utc(display_until)]
        ELSE [current_utc |-> format_utc(now_dt), current_item |-> None,
              next_item |-> next_part, metadata |-> None]

\* current and next are Optional entries; now_dt is build_status's utc_now()
build_status(current, next, cache, now_dt) ==
    LET items == Get(cache, "items", <<>>)
        base == [current_utc |-> format_utc(now_dt),
                 current_item |-> None,
                 next_item |-> None,
                 metadata |-> None]
        next_part == IF next # None
                     THEN Some([time |-> GetOpt(next[1], "time"),
                                media |-> GetOpt(next[1], "media")])
                     ELSE None
    IN  IF current # None
        THEN LET media_key == GetOpt(current[1], "media")
                 display_duration == Get(current[1], "metadata_display_duration",
                                         DEFAULT_DISPLAY_DURATION)
                 display_until == now_dt + display_duration * Sub
             IN  [current_utc |-> base.current_utc,
                  current_item |-> Some([time |-> GetOpt(current[1], "time"),
                                         media |-> media_key,
                                         metadata_display_duration |-> display_duration]),
                  next_item |-> next_part,
                  metadata |-> lookup_metadata(items, media_key),
                  display_until_utc |-> format_utc(display_until)]
        ELSE [base EXCEPT !.next_item = next_part]

---------------------------------------------------------------------------
(* Files: safe_read_json, atomic_write_json *)

NoFile == [exists |-> FALSE, content |-> <<>>, mtime |-> 0]

Paths == {"schedule.json", "schedule.json.tmp",
          "media_metadata.json", "media_metadata.json.tmp",
          "obs_status.json", "obs_status.json.tmp"}

\* json.dumps(data, indent=2, sort_keys=True): the text, in chunks
json_dumps(data) == [i \in 1..NChunks |-> <<data, i>>]

\* json.loads(text): None stands for the JSONDecodeError of a text that is
\* not the whole text of one document
json_loads(text) ==
    IF Len(text) = NChunks /\ \A i \in 1..NChunks : text[i] = <<text[1][1], i>>
    THEN Some(text[1][1]) ELSE None

safe_read_json(f, path, default) ==
    IF ~f[path].exists THEN default
    ELSE LET doc == json_loads(f[path].content)
         IN  IF doc = None THEN default ELSE doc[1]

\* Mutant: the text is written to the path itself, not to a temporary beside it.
tmp_path_same(path) == path

\* path.with_suffix(path.suffix + ".tmp")
tmp_path(path) ==
    CASE path = "schedule.json" -> "schedule.json.tmp"
      [] path = "media_metadata.json" -> "media_metadata.json.tmp"
      [] path = "obs_status.json" -> "obs_status.json.tmp"

\* tmp_path.write_text(...): open(tmp_path, "w") creates or truncates the file
open_tmp(f, path, t) ==
    [f EXCEPT ![tmp_path(path)] = [exists |-> TRUE, content |-> <<>>, mtime |-> t]]

\* ... and writes the text, a chunk at a time
write_chunk(f, path, data, t) ==
    [f EXCEPT ![tmp_path(path)] =
        [exists |-> TRUE,
         content |-> Append(@.content, json_dumps(data)[Len(@.content) + 1]),
         mtime |-> t]]

written(f, path) == Len(f[tmp_path(path)].content) = NChunks

\* tmp_path.replace(path): rename(2), atomic
replace_tmp(f, path) ==
    [f EXCEPT ![path] = f[tmp_path(path)], ![tmp_path(path)] = NoFile]

\* An open file, as a process that writes media_metadata.json.tmp holds it: the
\* path the file is now linked at ("unlinked" once another file was renamed
\* over it) and the offset of the process's next write. open(path, "w")
\* truncates the file that is at the path, which a process that opened it
\* earlier goes on writing to, at its own offset; rename moves the file, and
\* the processes that hold it open write to it where it now is.
Closed == [at |-> "closed", off |-> 0]
opened(path) == [at |-> tmp_path(path), off |-> 0]

\* the part of a file that was never written, below a write at a later offset
Hole == <<[type |-> "hole"], 0>>

\* file.write of the next chunk of the text of data, at the offset of fd
write_at(f, fd, data, t) ==
    IF fd.at \notin DOMAIN f THEN f
    ELSE LET i == fd.off + 1
             old == f[fd.at].content
             n == IF Len(old) > i THEN Len(old) ELSE i
         IN  [f EXCEPT ![fd.at] =
                 [exists |-> TRUE,
                  content |-> [j \in 1..n |->
                                  IF j = i THEN json_dumps(data)[i]
                                  ELSE IF j <= Len(old) THEN old[j] ELSE Hole],
                  mtime |-> t]]

advanced(fd) == [fd EXCEPT !.off = @ + 1]

\* what tmp_path.replace(path) by one process does to an open file of another
moved(fd, path) ==
    IF fd.at = tmp_path(path) THEN [fd EXCEPT !.at = path]
    ELSE IF fd.at = path THEN [fd EXCEPT !.at = "unlinked"]
    ELSE fd

\* load_schedule
default_schedule(t) ==
    [type |-> "object", timezone |-> "UTC", items |-> <<>>,
     last_updated |-> format_utc(t)]
load_schedule(f, t) == safe_read_json(f, SCHEDULE_FILE, default_schedule(t))

\* discover_media and the payload of update_metadata_cache
discover_media(dir) == [m \in dir |-> [type |-> "video", title |-> m]]
metadata_payload(dir, t) ==
    [updated_at |-> format_utc(t), items |-> discover_media(dir)]

---------------------------------------------------------------------------
(* Inputs *)

\* f"{hour:02d}:{minute:02d}:{second:02d}" (schedule_manager.prompt_time)
TwoDigits(n) == <<DigitChars[(n \div 10) + 1], DigitChars[(n % 10) + 1]>>
HMS(h, m, s) == TwoDigits(h) \o <<":">> \o TwoDigits(m) \o <<":">> \o TwoDigits(s)

\* a schedule item as add_schedule_item appends it
Item(time, media, duration) ==
    [type |-> "object", time |-> time, media |-> media,
     metadata_display_duration |-> duration]

\* the clock when the scheduler is first started, and the last instant modelled
BootSeconds == BootDay * SECONDS_PER_DAY
BootTick == BootSeconds * Sub
LastTick == BootTick + MaxSeconds * Sub

SysMedia == {"showA"}

\* the items lists the schedule manager saves
EditItems ==
    {<<>>,
     <<Item(HMS(0, 0, 1), "showA", 10)>>,
     <<Item(HMS(0, 0, 1), "showA", 10), Item(HMS(0, 0, 2), "showB", 5)>>}

\* the documents another program writes in place
ExternalDocs ==
    {[type |-> "array"],
     [type |-> "object", timezone |-> "UTC", items |-> <<[type |-> "string"]>>],
     [type |-> "object", timezone |-> "UTC",
      items |-> <<Item(HMS(0, 0, 2), "showB", 5)>>]}

\* the schedule of the scheduler run alone
PublishSchedule ==
    [type |-> "object", timezone |-> "UTC",
     items |-> <<Item(HMS(0, 0, 1), "showA", 10), Item(HMS(0, 0, 2), "showB", 5)>>,
     last_updated |-> format_utc(BootTick)]

\* the items of the schedule documents one tick is run over: well-formed ones
\* (two of them at the same time), ones whose time does not parse, one with
\* an hour past 23 and one with neither media nor duration
TickItems ==
    {Item(HMS(6, 0, 0), "showA", 10),
     Item(HMS(18, 0, 0), "showB", 5),
     Item(HMS(8, 0, 0), "showA", 10),
     Item(HMS(20, 0, 0), "showB", 5),
     Item(HMS(6, 0, 0), "showB", 0),
     Item(<<"6", ":", "0", "0">>, "showA", 10),
     Item(<<"a", "b", ":", "0", "0", ":", "0", "0">>, "showB", 5),
     Item(HMS(25, 0, 0), "showA", 10),
     [type |-> "object", time |-> HMS(18, 0, 0)]}

RECURSIVE SeqsUpTo(_, _)
SeqsUpTo(S, n) ==
    IF n = 0 THEN {<<>>}
    ELSE LET shorter == SeqsUpTo(S, n - 1)
         IN  shorter \cup {Append(q, x) : q \in shorter, x \in S}

TickDocs ==
    {[type |-> "object", timezone |-> "UTC", items |-> items] :
        items \in SeqsUpTo(TickItems, MaxItems)}

\* an instant of the boot day: h:m:s and frac ticks
At(h, m, s, frac) == (BootSeconds + h * 3600 + m * 60 + s) * Sub + frac

TickInstants ==
    {At(2, 0, 0, 0), At(5, 59, 59, Sub - 1), At(6, 0, 0, 0), At(9, 30, 0, 0),
     At(18, 0, 0, 1), At(23, 59, 59, Sub - 1)}

TickMedia == {{"showA"}}

---------------------------------------------------------------------------
(* run_scheduler: one action per step of the process *)

locals == <<metadata_cache, last_metadata_scan, schedule_cache, schedule_mtime,
            now, mtime, schedule_items, current_item, next_item, status, payload,
            meta_fd>>
tickLocals == <<now, mtime, schedule_items, current_item, next_item, status, payload,
                meta_fd>>
caches == <<metadata_cache, last_metadata_scan, schedule_cache, schedule_mtime>>
editor == <<ed_pc, ed_doc, ed_fd>>

\* a schedule_cache not yet assigned
Unset == [type |-> "unset"]

LocalsUnset ==
    /\ metadata_cache = [items |-> <<>>]
    /\ last_metadata_scan = 0
    /\ schedule_cache = Unset
    /\ schedule_mtime = 0
    /\ now = 0
    /\ mtime = 0
    /\ schedule_items = <<>>
    /\ current_item = None
    /\ next_item = None
    /\ status = None
    /\ payload = None
    /\ meta_fd = Closed

\* the process ends (an uncaught exception, or a signal): its locals are gone
Exit(how) ==
    /\ pc' = how
    /\ metadata_cache' = [items |-> <<>>]
    /\ last_metadata_scan' = 0
    /\ schedule_cache' = Unset
    /\ schedule_mtime' = 0
    /\ now' = 0
    /\ mtime' = 0
    /\ schedule_items' = <<>>
    /\ current_item' = None
    /\ next_item' = None
    /\ status' = None
    /\ payload' = None
    /\ meta_fd' = Closed

\* lines 210-214
InitMeta ==
    /\ pc = "start"
    /\ metadata_cache' = safe_read_json(fs, METADATA_FILE, [items |-> <<>>])
    /\ last_metadata_scan' = 0
    /\ pc' = "init_load"
    /\ UNCHANGED <<schedule_cache, schedule_mtime, tickLocals, envVars>>

\* line 216
InitLoad ==
    /\ pc = "init_load"
    /\ schedule_cache' = load_schedule(fs, clock)
    /\ pc' = "init_stat"
    /\ UNCHANGED <<metadata_cache, last_metadata_scan, schedule_mtime,
                   tickLocals, envVars>>

\* line 217
InitStat ==
    /\ pc = "init_stat"
    /\ schedule_mtime' = IF fs[SCHEDULE_FILE].exists
                         THEN fs[SCHEDULE_FILE].mtime ELSE 0
    /\ pc' = "tick"
    /\ UNCHANGED <<metadata_cache, last_metadata_scan, schedule_cache,
                   tickLocals, envVars>>

\* Mutant: line 221 compares with >=, so a tick that starts exactly one
\* interval after the last refresh refreshes again.
TickStart_atleast ==
    /\ pc = "tick"
    /\ now' = clock
    /\ pc' = IF clock - last_metadata_scan >= RESCAN_INTERVAL_SECONDS * Sub
             THEN "discover" ELSE "check_schedule"
    /\ UNCHANGED <<caches, mtime, schedule_items, current_item, next_item, status,
                   payload, meta_fd, envVars>>

\* lines 220-221
TickStart ==
    /\ pc = "tick"
    /\ now' = clock
    /\ pc' = IF clock - last_metadata_scan > RESCAN_INTERVAL_SECONDS * Sub
             THEN "discover" ELSE "check_schedule"
    /\ UNCHANGED <<caches, mtime, schedule_items, current_item, next_item, status,
                   payload, meta_fd, envVars>>

\* update_metadata_cache, lines 112-116
Discover ==
    /\ pc = "discover"
    /\ payload' = Some(metadata_payload(media_dir, clock))
    /\ pc' = "meta_open"
    /\ UNCHANGED <<caches, now, mtime, schedule_items, current_item, next_item,
                   status, meta_fd, envVars>>

\* update_metadata_cache, line 117: atomic_write_json(METADATA_FILE, payload)
MetaOpen ==
    /\ pc = "meta_open"
    /\ fs' = open_tmp(fs, METADATA_FILE, clock)
    /\ meta_fd' = opened(METADATA_FILE)
    /\ pc' = "meta_write"
    /\ UNCHANGED <<caches, now, mtime, schedule_items, current_item, next_item,
                   status, payload, clock, media_dir, editor>>

MetaWrite ==
    /\ pc = "meta_write"
    /\ meta_fd.off < NChunks
    /\ fs' = write_at(fs, meta_fd, payload[1], clock)
    /\ meta_fd' = advanced(meta_fd)
    /\ UNCHANGED <<pc, caches, now, mtime, schedule_items, current_item,
                   next_item, status, payload, clock, media_dir, editor>>

\* Mutant: line 222 drops the mapping update_metadata_cache returns, so the
\* tick goes on with the mapping it had before the refresh.
MetaRename_discard ==
    /\ pc = "meta_write"
    /\ meta_fd.off = NChunks
    /\ fs[tmp_path(METADATA_FILE)].exists
    /\ fs' = replace_tmp(fs, METADATA_FILE)
    /\ meta_fd' = Closed
    /\ ed_fd' = moved(ed_fd, METADATA_FILE)
    /\ last_metadata_scan' = now
    /\ pc' = "check_schedule"
    /\ UNCHANGED <<metadata_cache, schedule_cache, schedule_mtime, now, mtime,
                   schedule_items, current_item, next_item, status, payload,
                   clock, media_dir, ed_pc, ed_doc>>

\* ... its rename, then lines 118 and 222-223
MetaRename ==
    /\ pc = "meta_write"
    /\ meta_fd.off = NChunks
    /\ fs[tmp_path(METADATA_FILE)].exists
    /\ fs' = replace_tmp(fs, METADATA_FILE)
    /\ meta_fd' = Closed
    /\ ed_fd' = moved(ed_fd, METADATA_FILE)
    /\ metadata_cache' = payload[1]
    /\ last_metadata_scan' = now
    /\ pc' = "check_schedule"
    /\ UNCHANGED <<schedule_cache, schedule_mtime, now, mtime, schedule_items,
                   current_item, next_item, status, payload, clock, media_dir,
                   ed_pc, ed_doc>>

\* line 42 of broadcast_scheduler.py when the temporary file is no longer
\* there (another process renamed it): FileNotFoundError, uncaught at line 222
MetaRenameFails ==
    /\ pc = "meta_write"
    /\ meta_fd.off = NChunks
    /\ ~fs[tmp_path(METADATA_FILE)].exists
    /\ Exit("crashed")
    /\ UNCHANGED envVars

\* line 225
CheckSchedule ==
    /\ pc = "check_schedule"
    /\ pc' = IF fs[SCHEDULE_FILE].exists THEN "stat" ELSE "resolve"
    /\ UNCHANGED <<locals, envVars>>

\* Mutant: line 227 does not compare: every tick that finds the file reloads it.
Stat_always ==
    /\ pc = "stat"
    /\ fs[SCHEDULE_FILE].exists
    /\ mtime' = fs[SCHEDULE_FILE].mtime
    /\ pc' = "load"
    /\ UNCHANGED <<caches, now, schedule_items, current_item, next_item, status,
                   payload, meta_fd, envVars>>

\* lines 226-227
Stat ==
    /\ pc = "stat"
    /\ fs[SCHEDULE_FILE].exists
    /\ mtime' = fs[SCHEDULE_FILE].mtime
    /\ pc' = IF fs[SCHEDULE_FILE].mtime # schedule_mtime THEN "load" ELSE "resolve"
    /\ UNCHANGED <<caches, now, schedule_items, current_item, next_item, status,
                   payload, meta_fd, envVars>>

\* line 226: stat() of a file removed since line 225 raises FileNotFoundError,
\* which nothing in run_scheduler catches
StatFails ==
    /\ pc = "stat"
    /\ ~fs[SCHEDULE_FILE].exists
    /\ Exit("crashed")
    /\ UNCHANGED envVars

\* lines 228-229
Load ==
    /\ pc = "load"
    /\ schedule_cache' = load_schedule(fs, clock)
    /\ schedule_mtime' = mtime
    /\ pc' = "resolve"
    /\ UNCHANGED <<metadata_cache, last_metadata_scan, tickLocals, envVars>>

\* lines 231-232
Resolve ==
    /\ pc = "resolve"
    /\ ~resolve_raises(schedule_cache)
    /\ LET items == resolve_schedule_items(schedule_cache)
           r == select_current_item(items, clock)
       IN  /\ schedule_items' = items
           /\ current_item' = r[1]
           /\ next_item' = r[2]
    /\ pc' = "build"
    /\ UNCHANGED <<caches, now, mtime, status, payload, meta_fd, envVars>>

\* line 231 on a schedule document that is no dict, or with an item that is none:
\* AttributeError, uncaught
ResolveFails ==
    /\ pc = "resolve"
    /\ resolve_raises(schedule_cache)
    /\ Exit("crashed")
    /\ UNCHANGED envVars

\* line 233
Build ==
    /\ pc = "build"
    /\ status' = Some(build_status(current_item, next_item, metadata_cache, clock))
    /\ pc' = "status_open"
    /\ UNCHANGED <<caches, now, mtime, schedule_items, current_item, next_item,
                   payload, meta_fd, envVars>>

\* line 234: atomic_write_json(STATUS_FILE, status)
StatusOpen ==
    /\ pc = "status_open"
    /\ fs' = open_tmp(fs, STATUS_FILE, clock)
    /\ pc' = "status_write"
    /\ UNCHANGED <<locals, clock, media_dir, editor>>

StatusWrite ==
    /\ pc = "status_write"
    /\ ~written(fs, STATUS_FILE)
    /\ fs' = write_chunk(fs, STATUS_FILE, status[1], clock)
    /\ UNCHANGED <<pc, locals, clock, media_dir, editor>>

StatusRename ==
    /\ pc = "status_write"
    /\ written(fs, STATUS_FILE)
    /\ fs' = replace_tmp(fs, STATUS_FILE)
    /\ pc' = "sleep"
    /\ UNCHANGED <<locals, clock, media_dir, editor>>

\* line 235: time.sleep(POLL_INTERVAL_SECONDS). The locals of the tick are dead
\* here (the next tick assigns each before it reads it) and are cleared.
Sleep ==
    /\ pc = "sleep"
    /\ clock + POLL_INTERVAL_SECONDS * Sub <= LastTick
    /\ clock' = clock + POLL_INTERVAL_SECONDS * Sub
    /\ pc' = "tick"
    /\ now' = 0
    /\ mtime' = 0
    /\ schedule_items' = <<>>
    /\ current_item' = None
    /\ next_item' = None
    /\ status' = None
    /\ payload' = None
    /\ UNCHANGED <<caches, meta_fd, fs, media_dir, editor>>

\* update_metadata_cache raising (rglob or the write or rename failing with an
\* OSError): uncaught at line 222
RefreshFails ==
    /\ pc \in {"discover", "meta_open", "meta_write"}
    /\ Exit("crashed")
    /\ UNCHANGED envVars

\* atomic_write_json(STATUS_FILE, ...) raising an OSError: uncaught at line 234
StatusWriteFails ==
    /\ pc \in {"status_open", "status_write"}
    /\ Exit("crashed")
    /\ UNCHANGED envVars

Running == pc \notin {"killed", "crashed"}

\* the process is terminated from outside, at any point
Kill ==
    /\ Running
    /\ Exit("killed")
    /\ UNCHANGED envVars

\* the process is started again: the files are as it left them
Restart ==
    /\ ~Running
    /\ pc' = "start"
    /\ UNCHANGED <<locals, envVars>>

---------------------------------------------------------------------------
(* The environment: the clock, the media library, the writers of schedule.json *)

TimePasses ==
    /\ clock + Sub <= LastTick
    /\ clock' = clock + Sub
    /\ UNCHANGED <<pc, locals, fs, media_dir, editor>>

MediaChange ==
    /\ \E m \in SysMedia :
          media_dir' = IF m \in media_dir THEN media_dir \ {m} ELSE media_dir \cup {m}
    /\ UNCHANGED <<pc, locals, fs, clock, editor>>

\* schedule_manager.save_schedule, line 42
EdBegin ==
    /\ ed_pc = "idle"
    /\ \E items \in EditItems :
          ed_doc' = Some([type |-> "object", timezone |-> "UTC", items |-> items,
                          last_updated |-> format_utc(clock)])
    /\ ed_pc' = "open"
    /\ UNCHANGED <<pc, locals, fs, clock, media_dir, ed_fd>>

\* schedule_manager.save_schedule, line 43: atomic_write_json(SCHEDULE_FILE, schedule)
EdOpen ==
    /\ ed_pc = "open"
    /\ fs' = open_tmp(fs, SCHEDULE_FILE, clock)
    /\ ed_pc' = "write"
    /\ UNCHANGED <<pc, locals, clock, media_dir, ed_doc, ed_fd>>

EdWrite ==
    /\ ed_pc = "write"
    /\ ~written(fs, SCHEDULE_FILE)
    /\ fs' = write_chunk(fs, SCHEDULE_FILE, ed_doc[1], clock)
    /\ UNCHANGED <<pc, locals, clock, media_dir, editor>>

EdRename ==
    /\ ed_pc = "write"
    /\ written(fs, SCHEDULE_FILE)
    /\ fs' = replace_tmp(fs, SCHEDULE_FILE)
    /\ ed_pc' = "idle"
    /\ ed_doc' = None
    /\ UNCHANGED <<pc, locals, clock, media_dir, ed_fd>>

\* schedule_manager.rescan_metadata: update_metadata_cache, lines 112-116 ...
RsBegin ==
    /\ ed_pc = "idle"
    /\ ed_doc' = Some(metadata_payload(media_dir, clock))
    /\ ed_pc' = "rs_open"
    /\ UNCHANGED <<pc, locals, fs, clock, media_dir, ed_fd>>

\* ... and line 117: atomic_write_json(METADATA_FILE, payload)
RsOpen ==
    /\ ed_pc = "rs_open"
    /\ fs' = open_tmp(fs, METADATA_FILE, clock)
    /\ ed_fd' = opened(METADATA_FILE)
    /\ ed_pc' = "rs_write"
    /\ UNCHANGED <<pc, locals, clock, media_dir, ed_doc>>

RsWrite ==
    /\ ed_pc = "rs_write"
    /\ ed_fd.off < NChunks
    /\ fs' = write_at(fs, ed_fd, ed_doc[1], clock)
    /\ ed_fd' = advanced(ed_fd)
    /\ UNCHANGED <<pc, locals, clock, media_dir, ed_pc, ed_doc>>

RsRename ==
    /\ ed_pc = "rs_write"
    /\ ed_fd.off = NChunks
    /\ fs[tmp_path(METADATA_FILE)].exists
    /\ fs' = replace_tmp(fs, METADATA_FILE)
    /\ ed_fd' = Closed
    /\ meta_fd' = moved(meta_fd, METADATA_FILE)
    /\ ed_pc' = "idle"
    /\ ed_doc' = None
    /\ UNCHANGED <<pc, caches, now, mtime, schedule_items, current_item,
                   next_item, status, payload, clock, media_dir>>

\* the rename when the temporary file is no longer there: FileNotFoundError,
\* which neither rescan_metadata nor main catches, ends the manager
RsRenameFails ==
    /\ ed_pc = "rs_write"
    /\ ed_fd.off = NChunks
    /\ ~fs[tmp_path(METADATA_FILE)].exists
    /\ ed_pc' = "failed"
    /\ ed_doc' = None
    /\ ed_fd' = Closed
    /\ UNCHANGED <<pc, locals, fs, clock, media_dir>>

\* another program rewrites schedule.json in place: it truncates the file ...
ExternalTruncate ==
    /\ fs' = [fs EXCEPT ![SCHEDULE_FILE] =
                 [exists |-> TRUE, content |-> <<>>, mtime |-> clock]]
    /\ UNCHANGED <<pc, locals, clock, media_dir, editor>>

\* ... and writes its document, a chunk at a time
ExternalWrite ==
    /\ fs[SCHEDULE_FILE].exists
    /\ Len(fs[SCHEDULE_FILE].content) < NChunks
    /\ LET text == fs[SCHEDULE_FILE].content
       IN  \E doc \in ExternalDocs :
              /\ text # <<>> => doc = text[1][1]
              /\ fs' = [fs EXCEPT ![SCHEDULE_FILE] =
                           [exists |-> TRUE,
                            content |-> Append(text, <<doc, Len(text) + 1>>),
                            mtime |-> clock]]
    /\ UNCHANGED <<pc, locals, clock, media_dir, editor>>

\* schedule.json is removed
ExternalDelete ==
    /\ fs[SCHEDULE_FILE].exists
    /\ fs' = [fs EXCEPT ![SCHEDULE_FILE] = NoFile]
    /\ UNCHANGED <<pc, locals, clock, media_dir, editor>>

---------------------------------------------------------------------------
(* The scheduler beside the writers of schedule.json *)

Init ==
    /\ pc = "start"
    /\ LocalsUnset
    /\ fs = [p \in Paths |-> NoFile]
    /\ clock = BootTick
    /\ media_dir = {}
    /\ ed_pc = "idle"
    /\ ed_doc = None
    /\ ed_fd = Closed

Scheduler ==
    \/ InitMeta \/ InitLoad \/ InitStat
    \/ TickStart
    \/ Discover \/ MetaOpen \/ MetaWrite \/ MetaRename
    \/ CheckSchedule \/ Stat \/ Load
    \/ Resolve \/ Build
    \/ StatusOpen \/ StatusWrite \/ StatusRename
    \/ Sleep

Failures == StatFails \/ ResolveFails \/ RefreshFails \/ StatusWriteFails

Editor == EdBegin \/ EdOpen \/ EdWrite \/ EdRename

External == ExternalTruncate \/ ExternalWrite \/ ExternalDelete

Next == Scheduler \/ Failures \/ TimePasses \/ External

Spec == Init /\ [][Next]_vars

---------------------------------------------------------------------------
(* The scheduler beside the schedule manager saving schedules *)

NextEdit == Scheduler \/ Editor

SpecEdit == Init /\ [][NextEdit]_vars

---------------------------------------------------------------------------
(* The start and the first tick of the scheduler beside the manager        *)
(* rescanning a media library that changes                                 *)

InitRescan ==
    /\ pc = "start"
    /\ LocalsUnset
    /\ fs = [p \in Paths |-> NoFile]
    /\ clock = LastTick
    /\ media_dir = {}
    /\ ed_pc = "idle"
    /\ ed_doc = None
    /\ ed_fd = Closed

Rescan == RsBegin \/ RsOpen \/ RsWrite \/ RsRename \/ RsRenameFails

NextRescan ==
    \/ InitMeta \/ InitLoad \/ InitStat
    \/ TickStart
    \/ Discover \/ MetaOpen \/ MetaWrite \/ MetaRename \/ MetaRenameFails
    \/ CheckSchedule
    \/ Resolve \/ Build
    \/ StatusOpen \/ StatusWrite \/ StatusRename
    \/ Rescan
    \/ MediaChange

SpecRescan == InitRescan /\ [][NextRescan]_vars

---------------------------------------------------------------------------
(* The scheduler alone, killed and started again, over a schedule nobody edits *)

InitPublish ==
    /\ pc = "start"
    /\ LocalsUnset
    /\ fs = [p \in Paths |->
               IF p = SCHEDULE_FILE
               THEN [exists |-> TRUE, content |-> json_dumps(PublishSchedule),
                     mtime |-> BootTick]
               ELSE NoFile]
    /\ clock = BootTick
    /\ media_dir = SysMedia
    /\ ed_pc = "idle"
    /\ ed_doc = None
    /\ ed_fd = Closed

NextPublish ==
    \/ InitMeta \/ InitLoad \/ InitStat
    \/ TickStart
    \/ Discover \/ MetaOpen \/ MetaWrite \/ MetaRename
    \/ CheckSchedule \/ Stat
    \/ Resolve \/ Build
    \/ StatusOpen \/ StatusWrite \/ StatusRename
    \/ Sleep
    \/ RefreshFails \/ StatusWriteFails
    \/ Kill \/ Restart
    \/ TimePasses

SpecPublish == InitPublish /\ [][NextPublish]_vars

---------------------------------------------------------------------------
(* The scheduler alone over more than one refresh interval, with no        *)
(* schedule file: it is started CadenceSeconds before the last instant     *)
(* modelled                                                                *)

InitCadence ==
    /\ pc = "start"
    /\ LocalsUnset
    /\ fs = [p \in Paths |-> NoFile]
    /\ clock = LastTick - CadenceSeconds * Sub
    /\ media_dir = SysMedia
    /\ ed_pc = "idle"
    /\ ed_doc = None
    /\ ed_fd = Closed

NextCadence ==
    \/ InitMeta \/ InitLoad \/ InitStat
    \/ TickStart
    \/ Discover \/ MetaOpen \/ MetaWrite \/ MetaRename
    \/ CheckSchedule
    \/ Resolve \/ Build
    \/ StatusOpen \/ StatusWrite \/ StatusRename
    \/ Sleep
    \/ TimePasses

SpecCadence == InitCadence /\ [][NextCadence]_vars

---------------------------------------------------------------------------
(* One tick from the reload on, over every schedule document and instant  *)
(* of the pools: the scheduler was started at BootTick with no schedule    *)
(* file, has refreshed the metadata in this tick, and has just seen the    *)
(* schedule file that was written at this instant                          *)

InitTick ==
    /\ pc = "load"
    /\ clock \in TickInstants
    /\ \E doc \in TickDocs :
          fs = [p \in Paths |->
                  IF p = SCHEDULE_FILE
                  THEN [exists |-> TRUE, content |-> json_dumps(doc), mtime |-> clock]
                  ELSE NoFile]
    /\ \E dir \in TickMedia :
          /\ media_dir = dir
          /\ metadata_cache = metadata_payload(dir, clock)
    /\ last_metadata_scan = clock
    /\ schedule_cache = default_schedule(BootTick)
    /\ schedule_mtime = 0
    /\ now = clock
    /\ mtime = clock
    /\ schedule_items = <<>>
    /\ current_item = None
    /\ next_item = None
    /\ status = None
    /\ payload = None
    /\ meta_fd = Closed
    /\ ed_pc = "idle"
    /\ ed_doc = None
    /\ ed_fd = Closed

NextTick ==
    \/ Load
    \/ Resolve \/ Build
    \/ StatusOpen \/ StatusWrite \/ StatusRename

SpecTick == InitTick /\ [][NextTick]_vars

---------------------------------------------------------------------------
(* Properties of the resolver, over one tick (SpecTick) *)

\* the ScheduleSet of the tick and the instant it is resolved at
ScheduleSet == schedule_items
T == now_seconds_of(clock)
\* lines 231-232 have run in this tick
Resolved == pc \in {"build", "status_open", "status_write", "sleep"}

SortedBySeconds(items) ==
    \A i \in 1..Len(items) - 1 : items[i]["_seconds"] <= items[i + 1]["_seconds"]

\* index of the last entry that has started at t
LastStarted(items, t) ==
    CHOOSE k \in 1..Len(items) :
        /\ items[k]["_seconds"] <= t
        /\ \A j \in (k + 1)..Len(items) : items[j]["_seconds"] > t

\* C1: for a non-empty sorted ScheduleSet and an instant t at or after its first
\* entry's time, current is the last entry whose time is <= t (an entry is
\* current from the very second it starts) and next is the entry after it,
\* the first entry when current is the last.
C1_CurrentIsLastStarted ==
    (/\ Resolved
     /\ ScheduleSet # <<>>
     /\ SortedBySeconds(ScheduleSet)
     /\ ScheduleSet[1]["_seconds"] <= T)
    => LET k == LastStarted(ScheduleSet, T)
       IN  /\ current_item = Some(ScheduleSet[k])
           /\ next_item = Some(ScheduleSet[(k % Len(ScheduleSet)) + 1])

\* an instant that is exactly the start of an entry that is not the last
C1_Witness ==
    /\ Resolved
    /\ Len(ScheduleSet) = 3
    /\ ScheduleSet[2]["_seconds"] = T
    /\ ScheduleSet[1]["_seconds"] < T
    /\ ScheduleSet[3]["_seconds"] > T
    /\ current_item = Some(ScheduleSet[2])
    /\ next_item = Some(ScheduleSet[3])

\* C2: for a non-empty sorted ScheduleSet and an instant t before its first
\* entry's time, current is the last entry of the set and next is the first.
C2_WrapAround ==
    (/\ Resolved
     /\ ScheduleSet # <<>>
     /\ SortedBySeconds(ScheduleSet)
     /\ T < ScheduleSet[1]["_seconds"])
    => /\ current_item = Some(ScheduleSet[Len(ScheduleSet)])
       /\ next_item = Some(ScheduleSet[1])

\* entries at 06:00:00 and 18:00:00 resolved at 02:00:00
C2_Witness ==
    /\ Resolved
    /\ Len(ScheduleSet) = 2
    /\ ScheduleSet[1].time = HMS(6, 0, 0)
    /\ ScheduleSet[2].time = HMS(18, 0, 0)
    /\ T = 2 * 3600
    /\ current_item = Some(ScheduleSet[2])
    /\ next_item = Some(ScheduleSet[1])

\* C3: for a non-empty sorted ScheduleSet and any instant of the day, current
\* and next are both present and both are entries of the set.
C3_Total ==
    (/\ Resolved
     /\ ScheduleSet # <<>>
     /\ SortedBySeconds(ScheduleSet)
     /\ T \in 0..(SECONDS_PER_DAY - 1))
    => /\ current_item # None
       /\ next_item # None
       /\ \E i \in 1..Len(ScheduleSet) : current_item[1] = ScheduleSet[i]
       /\ \E i \in 1..Len(ScheduleSet) : next_item[1] = ScheduleSet[i]

\* three entries, none of which has started at t
C3_Witness ==
    /\ Resolved
    /\ Len(ScheduleSet) = 3
    /\ T < ScheduleSet[1]["_seconds"]
    /\ current_item # None
    /\ next_item # None
    /\ current_item # next_item

\* C4: when the ScheduleSet has exactly one entry, that entry is both current
\* and next, whether t is before, at or after its time.
C4_SingleEntry ==
    (Resolved /\ Len(ScheduleSet) = 1)
    => /\ current_item = Some(ScheduleSet[1])
       /\ next_item = Some(ScheduleSet[1])

\* the single entry has started
C4_Witness ==
    /\ Resolved
    /\ Len(ScheduleSet) = 1
    /\ ScheduleSet[1]["_seconds"] < T
    /\ current_item = Some(ScheduleSet[1])
    /\ next_item = Some(ScheduleSet[1])

---------------------------------------------------------------------------
(* Properties of the published status, over one tick (SpecTick) *)

\* line 234 has run in this tick: the status of the tick is published
Published == pc = "sleep" /\ fs[STATUS_FILE].exists
\* the document a reader of the status file gets
PublishedStatus == json_loads(fs[STATUS_FILE].content)

\* C6: in a published status whose current_item is present, display_until_utc
\* is current_utc plus the current entry's metadata_display_duration seconds
\* (the default of 10 for an entry without one), and current_item carries the
\* entry's time, media and duration; when current_item is absent the document
\* has no display_until_utc.
C6_DisplayUntil ==
    Published =>
        /\ PublishedStatus # None
        /\ LET doc == PublishedStatus[1]
           IN  /\ doc.current_item # None =>
                    /\ current_item # None
                    /\ "display_until_utc" \in DOMAIN doc
                    /\ LET entry == current_item[1]
                           d == IF "metadata_display_duration" \in DOMAIN entry
                                THEN entry.metadata_display_duration
                                ELSE DEFAULT_DISPLAY_DURATION
                       IN  /\ stamp_seconds(doc.display_until_utc)
                                = stamp_seconds(doc.current_utc) + d
                           /\ doc.current_item[1].metadata_display_duration = d
                           /\ doc.current_item[1].time = GetOpt(entry, "time")
                           /\ doc.current_item[1].media = GetOpt(entry, "media")
               /\ doc.current_item = None => "display_until_utc" \notin DOMAIN doc

\* schedule [(08:00:00, showA, 10), (20:00:00, showB, 5)] at 09:30:00
C6_Witness ==
    /\ Published
    /\ Len(schedule_items) = 2
    /\ schedule_items[1].time = HMS(8, 0, 0)
    /\ schedule_items[2].time = HMS(20, 0, 0)
    /\ LET doc == PublishedStatus[1]
       IN  /\ doc.current_utc = <<BootDay, 9, 30, 0>>
           /\ doc.current_item[1].media = Some("showA")
           /\ doc.current_item[1].metadata_display_duration = 10
           /\ doc.display_until_utc = <<BootDay, 9, 30, 10>>
           /\ doc.next_item[1].media = Some("showB")

\* the current entry's media has no entry in the metadata mapping
MetadataMissing ==
    /\ current_item # None
    /\ \/ "media" \notin DOMAIN current_item[1]
       \/ current_item[1].media \notin DOMAIN metadata_cache.items

\* C7: when the current entry's media has no entry in the metadata mapping, the
\* published status still has current_item and next_item, with metadata null;
\* metadata is non-null only when it is the mapping's entry for the current
\* entry's media, and next_item carries a time and a media and nothing else.
C7_MissingMetadata ==
    Published =>
        /\ PublishedStatus # None
        /\ LET doc == PublishedStatus[1]
           IN  /\ MetadataMissing =>
                    /\ doc.metadata = None
                    /\ doc.current_item # None
                    /\ doc.next_item # None
               /\ doc.metadata # None =>
                    /\ ~MetadataMissing
                    /\ doc.metadata = Some(metadata_cache.items[current_item[1].media])
               /\ doc.next_item # None => DOMAIN doc.next_item[1] = {"time", "media"}

\* the current entry's media is not in the mapping while the next entry's is
C7_Witness ==
    /\ Published
    /\ MetadataMissing
    /\ next_item # None
    /\ "media" \in DOMAIN next_item[1]
    /\ next_item[1].media \in DOMAIN metadata_cache.items
    /\ PublishedStatus[1].metadata = None
    /\ PublishedStatus[1].current_item[1].media = Some("showB")

\* no item of the cached schedule document has a time that parses
NoItemParses ==
    \A i \in 1..Len(Get(schedule_cache, "items", <<>>)) :
        parse_time_to_seconds(Get(schedule_cache.items[i], "time", <<>>)) = None

\* C8: when the ScheduleSet is empty (the document has no items, or none whose
\* time parses), select_current_item returns (None, None), and the tick
\* publishes a complete status with current_item, next_item and metadata null.
C8_EmptySchedule ==
    /\ (Resolved /\ NoItemParses) => schedule_items = <<>>
    /\ (Resolved /\ schedule_items = <<>>) =>
          current_item = None /\ next_item = None
    /\ (Published /\ schedule_items = <<>>) =>
          /\ PublishedStatus # None
          /\ PublishedStatus[1].current_item = None
          /\ PublishedStatus[1].next_item = None
          /\ PublishedStatus[1].metadata = None

\* a document of two items, both dropped, and its status published
C8_Witness ==
    /\ Published
    /\ Len(schedule_cache.items) = 2
    /\ schedule_items = <<>>
    /\ PublishedStatus # None
    /\ PublishedStatus[1].current_item = None
    /\ PublishedStatus[1].next_item = None

---------------------------------------------------------------------------
(* Publication of the status file (SpecPublish) *)

\* what a reader of the status file finds is a whole document
StatusFileComplete ==
    fs[STATUS_FILE].exists => json_loads(fs[STATUS_FILE].content) # None

\* the status file changes only by the rename of the fully written temporary
\* file, and then holds the whole status built in this tick
StatusReplacedByRename ==
    fs'[STATUS_FILE] # fs[STATUS_FILE] =>
        /\ pc = "status_write"
        /\ status # None
        /\ fs[tmp_path(STATUS_FILE)].content = json_dumps(status[1])
        /\ fs'[STATUS_FILE].content = json_dumps(status[1])

\* C5: at every point of every run, kills and failed writes included, the
\* status file is absent or holds one whole status document, and it changes
\* only by the rename of a fully written temporary file to the new snapshot.
C5_AtomicPublication ==
    /\ []StatusFileComplete
    /\ [][StatusReplacedByRename]_vars

\* the process was killed with the temporary file partly written, over a
\* published snapshot other than the one it was writing
C5_Witness ==
    /\ pc = "killed"
    /\ fs[tmp_path(STATUS_FILE)].exists
    /\ Len(fs[tmp_path(STATUS_FILE)].content) \in 1..(NChunks - 1)
    /\ fs[STATUS_FILE].exists
    /\ json_loads(fs[STATUS_FILE].content) # None
    /\ json_loads(fs[STATUS_FILE].content)[1] # fs[tmp_path(STATUS_FILE)].content[1][1]

---------------------------------------------------------------------------
(* Failures in the loop (Spec) *)

\* C9: no failure of a step of a tick ends the loop: the scheduler process
\* never exits on an exception.
C9_LoopNeverTerminates == pc # "crashed"

\* schedule.json exists and its text is not a whole JSON document
ScheduleUnparsable ==
    /\ fs[SCHEDULE_FILE].exists
    /\ json_loads(fs[SCHEDULE_FILE].content) = None

\* C10: a reload (lines 228-229) that finds schedule.json unparsable leaves the
\* cached ScheduleSet as it was before the reload.
C10_ParseFailureKeepsSchedule ==
    [][(pc = "load" /\ pc' = "resolve" /\ ScheduleUnparsable)
        => resolve_schedule_items(schedule_cache')
             = resolve_schedule_items(schedule_cache)]_vars

\* schedule.json holds a whole JSON document that is no schedule document:
\* its top level is not an object
ScheduleNotADocument ==
    /\ fs[SCHEDULE_FILE].exists
    /\ json_loads(fs[SCHEDULE_FILE].content) # None
    /\ json_loads(fs[SCHEDULE_FILE].content)[1].type # "object"

\* C11: a reload that finds schedule.json unparsable, or holding well-formed
\* JSON whose top level is not an object with an items list, caches a schedule
\* from which the tick resolves a ScheduleSet with no entries and goes on to
\* build and publish its status.
C11_MalformedYieldsEmpty ==
    [][/\ (pc = "load" /\ pc' = "resolve"
              /\ (ScheduleUnparsable \/ ScheduleNotADocument))
          => /\ ~resolve_raises(schedule_cache')
             /\ resolve_schedule_items(schedule_cache') = <<>>
       /\ (pc = "resolve" /\ pc' # "resolve"
              /\ Get(schedule_cache, "items", <<>>) = <<>>)
          => /\ pc' = "build"
             /\ schedule_items' = <<>>]_vars

---------------------------------------------------------------------------
(* The reload of the schedule (Spec) *)

\* the positions of a tick (lines 220-235)
TickPcs == {"tick", "discover", "meta_open", "meta_write", "check_schedule",
            "stat", "load", "resolve", "build", "status_open", "status_write",
            "sleep"}

\* C12: a tick that finds no schedule file, or finds it with the last-seen
\* modification time, goes on to resolve without reading it, the cached
\* schedule and the last-seen value unchanged; a tick that finds another
\* modification time reads the file, and the read replaces the cached schedule
\* by the file's document and records the modification time the tick saw;
\* no other step of a tick changes either.
C12_ReloadOnlyOnChange ==
    [][/\ (pc = "check_schedule" /\ pc' # pc /\ ~fs[SCHEDULE_FILE].exists)
          => pc' = "resolve" /\ UNCHANGED <<schedule_cache, schedule_mtime>>
       /\ (pc = "stat" /\ pc' # pc /\ fs[SCHEDULE_FILE].exists
              /\ fs[SCHEDULE_FILE].mtime = schedule_mtime)
          => pc' = "resolve" /\ UNCHANGED <<schedule_cache, schedule_mtime>>
       /\ (pc = "stat" /\ pc' # pc /\ fs[SCHEDULE_FILE].exists
              /\ fs[SCHEDULE_FILE].mtime # schedule_mtime)
          => pc' = "load" /\ UNCHANGED <<schedule_cache, schedule_mtime>>
       /\ (pc = "load" /\ pc' # pc)
          => /\ mtime # schedule_mtime
             /\ schedule_mtime' = mtime
             /\ (fs[SCHEDULE_FILE].exists
                   /\ json_loads(fs[SCHEDULE_FILE].content) # None)
                => schedule_cache' = json_loads(fs[SCHEDULE_FILE].content)[1]
       /\ (pc \in TickPcs \ {"load"} /\ pc' \in TickPcs)
          => UNCHANGED <<schedule_cache, schedule_mtime>>]_vars

\* a tick that started after the file was last written has found the
\* last-seen modification time and resolves from the schedule it had cached
C12_Witness ==
    /\ pc = "resolve"
    /\ fs[SCHEDULE_FILE].exists
    /\ fs[SCHEDULE_FILE].mtime < now
    /\ mtime = fs[SCHEDULE_FILE].mtime
    /\ schedule_mtime = mtime
    /\ schedule_cache.type = "object"
    /\ schedule_cache.items # <<>>
    /\ json_loads(fs[SCHEDULE_FILE].content) = Some(schedule_cache)

---------------------------------------------------------------------------
(* The entries of the ScheduleSet (SpecTick) *)

\* a time string of three fields of digits, the hour below 24, the minute and
\* the second below 60
WellFormedTime(time_str) ==
    LET fields == split(time_str, ":")
    IN  /\ Len(fields) = 3
        /\ \A i \in 1..3 :
              /\ fields[i] # <<>>
              /\ \A j \in 1..Len(fields[i]) : IsDigit(fields[i][j])
        /\ digits_value(fields[1], 0) < 24
        /\ digits_value(fields[2], 0) < 60
        /\ digits_value(fields[3], 0) < 60

\* C13: every entry of the ScheduleSet has a time of day in 0..86399 that comes
\* from a well-formed HH:MM:SS string (items with an hour of 24 or more, a
\* minute or second of 60 or more, a negative or non-numeric field or a wrong
\* number of fields are dropped), and the set is sorted ascending by it.
C13_TimeOfDayInRange ==
    Resolved =>
        /\ \A i \in 1..Len(ScheduleSet) :
              /\ ScheduleSet[i]["_seconds"] \in 0..(SECONDS_PER_DAY - 1)
              /\ WellFormedTime(ScheduleSet[i].time)
        /\ SortedBySeconds(ScheduleSet)

---------------------------------------------------------------------------
(* Publishing twice (SpecPublish) *)

\* a status document without its two timestamps
WithoutStamps(doc) ==
    [k \in DOMAIN doc \ {"current_utc", "display_until_utc"} |-> doc[k]]

\* C14: the status built from a current entry, a next entry and a metadata
\* mapping is, but for current_utc and display_until_utc, the same document
\* at whatever instant it is built, so that a second publication from the
\* same three differs from the first in those two fields only; and building
\* the status leaves the entries and the metadata mapping as they were.
C14_PublishIdempotent ==
    /\ [](status # None =>
            \A t \in BootTick..LastTick :
                WithoutStamps(build_status(current_item, next_item,
                                           metadata_cache, t))
                  = WithoutStamps(status[1]))
    /\ [][(pc = "build" /\ pc' = "status_open")
            => UNCHANGED <<current_item, next_item, schedule_items,
                           metadata_cache>>]_vars

\* a second status, built at a later second from the same current and next
\* entries as the one that is published, is about to replace it
C14_Witness ==
    /\ pc = "status_write"
    /\ written(fs, STATUS_FILE)
    /\ status # None
    /\ status[1].current_item # None
    /\ PublishedStatus # None
    /\ PublishedStatus[1].current_utc # status[1].current_utc
    /\ PublishedStatus[1].display_until_utc # status[1].display_until_utc
    /\ WithoutStamps(PublishedStatus[1]) = WithoutStamps(status[1])

---------------------------------------------------------------------------
(* Entries at the same time (SpecTick) *)

\* the indices of the entries of the ScheduleSet whose time of day is s
TiedAt(s) == {i \in 1..Len(ScheduleSet) : ScheduleSet[i]["_seconds"] = s}

\* the last item of the cached document whose time parses to s
LastListedAt(s) ==
    LET items == schedule_cache.items
        k == CHOOSE i \in 1..Len(items) :
                 /\ parse_time_to_seconds(Get(items[i], "time", <<>>)) = Some(s)
                 /\ \A j \in (i + 1)..Len(items) :
                       parse_time_to_seconds(Get(items[j], "time", <<>>)) # Some(s)
    IN  items[k]

Max(S) == CHOOSE x \in S : \A y \in S : y <= x

\* C15: when several entries share a time of day that t has reached, and no
\* entry with a later time has started, current is the one of them that is
\* last in the ScheduleSet, which is the one listed last in the schedule
\* document, and next is the entry after it, the first entry when there is none.
C15_TieBreak ==
    Resolved =>
        \A i \in 1..Len(ScheduleSet) :
            LET s == ScheduleSet[i]["_seconds"]
            IN  (/\ Cardinality(TiedAt(s)) > 1
                 /\ s <= T
                 /\ \A j \in 1..Len(ScheduleSet) :
                       ScheduleSet[j]["_seconds"] > s => ScheduleSet[j]["_seconds"] > T)
                => LET k == Max(TiedAt(s))
                   IN  /\ current_item = Some(ScheduleSet[k])
                       /\ current_item[1] = with_seconds(LastListedAt(s), s)
                       /\ next_item = Some(ScheduleSet[(k % Len(ScheduleSet)) + 1])

\* the document lists 06:00:00 showA, then 06:00:00 showB, then a later entry,
\* and is resolved between the two times
C15_Witness ==
    /\ Resolved
    /\ Len(ScheduleSet) = 3
    /\ schedule_cache.items[1] = Item(HMS(6, 0, 0), "showA", 10)
    /\ schedule_cache.items[2] = Item(HMS(6, 0, 0), "showB", 0)
    /\ ScheduleSet[3]["_seconds"] > T
    /\ T > 6 * 3600
    /\ current_item # None
    /\ current_item[1].media = "showB"
    /\ next_item = Some(ScheduleSet[3])

---------------------------------------------------------------------------
(* The order of the steps of a tick (Spec) *)

\* the step of the tick a position belongs to: 1 the refresh of the metadata,
\* 2 the reload of the schedule, 3 the resolution, 4 the publication, 5 the sleep
Phase(p) ==
    CASE p = "tick" -> 0
      [] p \in {"discover", "meta_open", "meta_write"} -> 1
      [] p \in {"check_schedule", "stat", "load"} -> 2
      [] p = "resolve" -> 3
      [] p \in {"build", "status_open", "status_write"} -> 4
      [] p = "sleep" -> 5

\* the steps go forward, the two conditional ones may be skipped, and the sleep
\* is followed by the next tick
InTickOrder ==
    (pc \in TickPcs /\ pc' \in TickPcs /\ pc' # pc) =>
        IF pc = "sleep" THEN pc' = "tick"
        ELSE /\ Phase(pc) <= Phase(pc')
             /\ Phase(pc') <= (IF Phase(pc) = 0 THEN 2 ELSE Phase(pc) + 1)

\* the status file changes in the one step that ends the publication, and
\* then holds the status built in this tick
PublishedOncePerTick ==
    /\ fs'[STATUS_FILE] # fs[STATUS_FILE] => (pc = "status_write" /\ pc' = "sleep")
    /\ (pc = "status_write" /\ pc' = "sleep")
          => /\ fs'[STATUS_FILE] # fs[STATUS_FILE]
             /\ fs'[STATUS_FILE].content = json_dumps(status[1])

\* from the resolution on, the caches are the ones of this tick's refresh and
\* reload, and the entries, the selection and the status come from them
BuiltFromThisTick ==
    /\ (pc \in TickPcs /\ Phase(pc) >= 2 /\ payload # None)
          => metadata_cache = payload[1]
    /\ (pc \in TickPcs /\ Phase(pc) >= 3 /\ mtime # 0)
          => schedule_mtime = mtime
    /\ (pc \in TickPcs /\ Phase(pc) >= 4)
          => /\ schedule_items = resolve_schedule_items(schedule_cache)
             /\ \E t \in BootTick..LastTick :
                   <<current_item, next_item>> = select_current_item(schedule_items, t)
    /\ pc \in {"status_open", "status_write", "sleep"}
          => /\ status # None
             /\ \E t \in BootTick..LastTick :
                   status[1] = build_status(current_item, next_item, metadata_cache, t)

\* C16: the steps of every tick come in the order refresh of the metadata (if
\* due), reload of the schedule (if changed), resolution, publication, sleep;
\* the status file is replaced exactly once in a tick; and the status is built
\* from the metadata and the schedule as cached after the refresh and the
\* reload of that same tick.
C16_TickOrdering ==
    /\ [][InTickOrder /\ PublishedOncePerTick]_vars
    /\ []BuiltFromThisTick

\* a tick that has refreshed the metadata, reloaded the schedule and published
\* a status with a current entry
C16_Witness ==
    /\ pc = "sleep"
    /\ payload # None
    /\ metadata_cache = payload[1]
    /\ mtime # 0
    /\ schedule_cache.type = "object"
    /\ json_loads(fs[SCHEDULE_FILE].content) = Some(schedule_cache)
    /\ status # None
    /\ status[1].current_item # None
    /\ fs[STATUS_FILE].content = json_dumps(status[1])

---------------------------------------------------------------------------
(* The cadence of the metadata refresh (SpecCadence) *)

\* a tick refreshes exactly when it starts more than the interval after the
\* start of the tick that last refreshed (after 0 for the first tick) ...
RefreshWhenDue ==
    (pc = "tick" /\ pc' # pc) =>
        /\ now' = clock
        /\ pc' = "discover" <=>
              now' - last_metadata_scan > RESCAN_INTERVAL_SECONDS * Sub
        /\ last_metadata_scan = 0 => pc' = "discover"

\* ... the timer is reset, to the start of the tick, by the refresh only, and
\* the refreshed mapping is in the metadata file when it becomes the cache
TimerReset ==
    /\ (pc = "meta_write" /\ pc' # pc)
          => /\ last_metadata_scan' = now
             /\ metadata_cache' = payload[1]
             /\ json_loads(fs'[METADATA_FILE].content) = Some(metadata_cache')
    /\ (pc \in TickPcs /\ (pc # "meta_write" \/ pc' = pc))
          => UNCHANGED <<last_metadata_scan, metadata_cache>>

\* a refresh is under way only more than the interval after the last one, and
\* the mapping the statuses are built from is the one in the metadata file
RefreshesApart ==
    /\ (pc \in TickPcs /\ Phase(pc) = 1)
          => now - last_metadata_scan > RESCAN_INTERVAL_SECONDS * Sub
    /\ (pc \in TickPcs /\ last_metadata_scan # 0)
          => json_loads(fs[METADATA_FILE].content) = Some(metadata_cache)

\* C17: the scheduler refreshes the metadata only on a tick that starts more
\* than 10 s after the start of the tick that last refreshed, and always on
\* the first tick; the refresh resets the timer to the start of its tick, so
\* no two refreshes are within one interval; and the refreshed mapping is
\* written to the metadata file before it is the mapping of any status.
C17_RefreshCadence ==
    /\ [][RefreshWhenDue /\ TimerReset]_vars
    /\ []RefreshesApart

\* the second refresh of a run starts, one second more than the interval
\* after the first: the tick one second earlier did not refresh
C17_Witness ==
    /\ pc = "discover"
    /\ last_metadata_scan # 0
    /\ now - last_metadata_scan = (RESCAN_INTERVAL_SECONDS + 1) * Sub
    /\ json_loads(fs[METADATA_FILE].content) = Some(metadata_cache)
    /\ PublishedStatus # None
    /\ stamp_seconds(PublishedStatus[1].current_utc) * Sub
          = last_metadata_scan + RESCAN_INTERVAL_SECONDS * Sub

---------------------------------------------------------------------------
(* Edits of the schedule beside the scheduler (SpecEdit) *)

\* the scheduler is in its loop and not about to read the schedule file, the
\* manager is not saving, and the file has the last-seen modification time:
\* with no further edit, no later tick reads the file (lines 226-227)
Settled ==
    /\ pc \in TickPcs \ {"load"}
    /\ ed_pc = "idle"
    /\ fs[SCHEDULE_FILE].exists
    /\ fs[SCHEDULE_FILE].mtime = schedule_mtime

\* C18: however the manager's saves interleave with the scheduler's startup
\* (load, then read of the modification time) and ticks (read of the
\* modification time, then load), no edit is missed for good: once the
\* scheduler has settled on the file's modification time, its cached schedule
\* is the file's content.
C18_NoEditMissed ==
    Settled => json_loads(fs[SCHEDULE_FILE].content) = Some(schedule_cache)

---------------------------------------------------------------------------
(* The two clock reads of a tick (SpecPublish) *)

\* the time and the media of an Optional entry, as a status document shows them
Shown(entry) ==
    IF entry = None THEN None
    ELSE Some([time |-> GetOpt(entry[1], "time"),
               media |-> GetOpt(entry[1], "media")])

\* the time and the media of an Optional current_item or next_item of a status
ShownInStatus(part) ==
    IF part = None THEN None
    ELSE Some([time |-> part[1].time, media |-> part[1].media])

\* C19: the current_item and next_item of a published status are the entries
\* select_current_item returns for the tick's ScheduleSet at the time of day
\* of the document's current_utc: the clock read of line 232 and the one of
\* line 177 are never on opposite sides of an entry's time.
C19_StatusSelfConsistent ==
    Published =>
        LET doc == PublishedStatus[1]
            r == select_current_item(schedule_items,
                                     stamp_seconds(doc.current_utc) * Sub)
        IN  /\ ShownInStatus(doc.current_item) = Shown(r[1])
            /\ ShownInStatus(doc.next_item) = Shown(r[2])

---------------------------------------------------------------------------
(* Two writers of the metadata file (SpecRescan) *)

\* C20: with the scheduler's refresh and the manager's rescan both writing
\* through media_metadata.json.tmp, the metadata file, when there is one, holds
\* one whole document at every point, and neither process fails at its
\* rename because the temporary file was renamed away.
C20_MetadataSnapshot ==
    /\ fs[METADATA_FILE].exists => json_loads(fs[METADATA_FILE].content) # None
    /\ pc # "crashed"
    /\ ed_pc # "failed"

====
